---- MODULE Spec2Model ----
(***************************************************************************)
(* A model of raylab's hybrid trainer loops (SVG(inf), legacy SVG(inf),    *)
(* NAF, SVG(1)), of the replay buffer they write to and sample from, and   *)
(* of the SPAML decision-aware model loss.                                 *)
(*                                                                         *)
(* Three specifications share the module:                                  *)
(*   SpecReplay  the replay buffer driven directly by add and sample;      *)
(*   SpecTrain   the _train methods of the four trainers;                  *)
(*   SpecSPAML   the SPAML loss object: setup, configuration and __call__. *)
(***************************************************************************)
EXTENDS Integers, Sequences, FiniteSets, TLC

VARIABLES
    replay,        \* the ReplayBuffer: [storage, next_idx, maxsize]
    n_added,       \* number of add calls so far; the n-th added transition is tagged n-1
    last_sample,   \* outcome of the latest ReplayBuffer.sample call
    \* --- trainers (SpecTrain) ---
    trainer,       \* which trainer class the object is
    config,        \* the trainer's configuration
    pc,            \* position inside _train ("idle" between calls)
    error,         \* the exception that ended the call, NoError otherwise
    rounds,        \* sample-and-update rounds started in the current call
    n_rollouts,    \* number of worker.sample() calls so far
    samples,       \* the batch worker.sample() returned last
    batch,         \* the batch replay.sample() returned last
    loop_n,        \* the bound range(...) was entered with
    loop_i,        \* passes of the off-policy for loop completed
    off_policy_stats,  \* off_policy_stats / fetches / learner_stats of the loop body
    on_policy_stats,
    result,        \* what _train returned
    num_steps_sampled,
    num_steps_trained,
    steps_sampled, \* NAF's local counter
    time_up,       \* NAF: time.time() - start >= min_iter_time_s was seen to hold
    off_policy_learning, \* the policy's off-policy learning mode
    events,        \* the calls made on the collaborators in the current
                   \* sample-and-update round of _train, in order
    \* --- the SPAML loss (SpecSPAML) ---
    env,           \* self._env: which environment functions have been set
    grad_estimator,
    ensemble_size, \* len(models)
    compiled,      \* compile() has scripted the modules
    policy_requires_grad,  \* requires_grad of the policy's parameters
    outcome,       \* the outcome of the method call in progress, NoOutcome otherwise
    \* --- trainer construction (SpecInit) ---
    num_workers,   \* config["num_workers"]
    made,          \* the collaborators _init has created so far
    \* --- the policy ---
    pure_exploration,  \* the policy's pure-exploration phase (NAF)
    \* --- the trust-region policy update (SpecLineSearch) ---
    line_search_config,  \* line_search and line_search_options
    theta,         \* the policy's parameters
    theta_old,     \* the parameters saved when the update began
    ls_step,       \* the candidate step
    ls_tried,      \* the improvement ratios (and KL verdicts) of the candidates tried
    ls_pc,         \* position inside the update ("idle" between updates)
    ls_stats,      \* the statistics the last update reported
    ls_updates,    \* policy updates completed
    \* --- the adaptive KL penalty of the SVG(1) policy ---
    kl_coeff,      \* the current coefficient
    kl_observable, \* the divergences the policy can observe in this run
    kl_last        \* the adaptation of the current round: observed KL, coefficient
                   \* before and after

replayVars == <<replay, n_added, last_sample>>

trainVars == <<trainer, config, pc, error, rounds, n_rollouts, samples, batch,
               loop_n, loop_i, off_policy_stats, on_policy_stats, result,
               num_steps_sampled, num_steps_trained, steps_sampled, time_up,
               off_policy_learning, events>>

spamlVars == <<env, grad_estimator, ensemble_size, compiled, policy_requires_grad,
               outcome>>

initVars == <<num_workers, made>>

policyVars == <<pure_exploration>>

lsVars == <<line_search_config, theta, theta_old, ls_step, ls_tried, ls_pc,
            ls_stats, ls_updates>>

\* The variables of the components that are specified on their own.
klVars == <<kl_coeff, kl_observable, kl_last>>

auxVars == <<lsVars, klVars>>

vars == <<replay, n_added, last_sample, trainer, config, pc, error, rounds,
          n_rollouts, samples, batch, loop_n, loop_i, off_policy_stats,
          on_policy_stats, result, num_steps_sampled, num_steps_trained,
          steps_sampled, time_up, off_policy_learning, events,
          env, grad_estimator, ensemble_size, compiled, policy_requires_grad, outcome,
          num_workers, made, pure_exploration,
          line_search_config, theta, theta_old, ls_step, ls_tried, ls_pc, ls_stats,
          ls_updates, kl_coeff, kl_observable, kl_last>>

(***************************************************************************)
(* Bounds of the model.                                                    *)
(***************************************************************************)
MaxCapacity == 4      \* largest buffer capacity tried
MaxAdds == 6          \* most add calls in a run of SpecReplay
MaxSampleSize == 2    \* largest batch_size passed to sample in SpecReplay

Range(s) == {s[j] : j \in 1..Len(s)}

Max(a, b) == IF a >= b THEN a ELSE b
Min(a, b) == IF a <= b THEN a ELSE b

(***************************************************************************)
(* ReplayBuffer (raylab.utils.replay_buffer).  The class is imported by    *)
(* the trainers but its file is not among the sources; it is modelled from *)
(* the specification: a fixed-capacity ordered store plus a write cursor,  *)
(* writes overwrite the oldest entry once full, sample draws uniformly     *)
(* with replacement and fails on an empty buffer.                          *)
(***************************************************************************)
NoError == "none"
EmptyBufferError == "EmptyBufferError"

ReplayBuffer(size) == [storage |-> <<>>, next_idx |-> 0, maxsize |-> size]

\* A plausible slip: the cursor never wraps, so a full buffer keeps growing.
ReplayAddNoWrap(buf, x) ==
    [buf EXCEPT !.storage = Append(@, x), !.next_idx = @ + 1]

ReplayAdd(buf, x) ==
    [buf EXCEPT
        !.storage = IF buf.next_idx >= Len(@)
                    THEN Append(@, x)
                    ELSE [@ EXCEPT ![buf.next_idx + 1] = x],
        !.next_idx = (@ + 1) % buf.maxsize]

\* All index draws of length k over n stored entries (with replacement).
IndexDraws(n, k) == [1..k -> 1..n]

\* A plausible slip: one draw short.
ReplaySampleShort(buf, k) ==
    IF Len(buf.storage) = 0
    THEN {[err |-> EmptyBufferError, rows |-> <<>>]}
    ELSE {[err |-> NoError, rows |-> [j \in 1..Max(k - 1, 0) |-> buf.storage[d[j]]]] :
            d \in IndexDraws(Len(buf.storage), Max(k - 1, 0))}

\* The outcomes of sample(k): an error on an empty buffer, else k stored rows.
ReplaySample(buf, k) ==
    IF Len(buf.storage) = 0
    THEN {[err |-> EmptyBufferError, rows |-> <<>>]}
    ELSE {[err |-> NoError, rows |-> [j \in 1..k |-> buf.storage[d[j]]]] :
            d \in IndexDraws(Len(buf.storage), k)}

(***************************************************************************)
(* Tensor values.  Arithmetic is exact: a value is a fraction num/den      *)
(* (den > 0), plus or minus infinity, or NaN, with the IEEE rules for      *)
(* the non-finite cases.  Float rounding is not modelled.                  *)
(***************************************************************************)
Fin(n, d) == [k |-> "fin", num |-> n, den |-> d]
PosInf == [k |-> "inf", num |-> 1, den |-> 1]
NegInf == [k |-> "inf", num |-> -1, den |-> 1]
NaN == [k |-> "nan", num |-> 0, den |-> 1]

Sign(n) == IF n > 0 THEN 1 ELSE IF n < 0 THEN -1 ELSE 0

FAdd(a, b) ==
    IF a.k = "nan" \/ b.k = "nan" THEN NaN
    ELSE IF a.k = "inf" /\ b.k = "inf" THEN (IF a.num = b.num THEN a ELSE NaN)
    ELSE IF a.k = "inf" THEN a
    ELSE IF b.k = "inf" THEN b
    ELSE Fin(a.num * b.den + b.num * a.den, a.den * b.den)

FMul(a, b) ==
    IF a.k = "nan" \/ b.k = "nan" THEN NaN
    ELSE IF a.k = "inf" \/ b.k = "inf"
         THEN (IF Sign(a.num) * Sign(b.num) = 0 THEN NaN
               ELSE IF Sign(a.num) * Sign(b.num) > 0 THEN PosInf ELSE NegInf)
    ELSE Fin(a.num * b.num, a.den * b.den)

FNeg(a) == [a EXCEPT !.num = -@]
FSub(a, b) == FAdd(a, FNeg(b))

\* The same value (NaN counted the same as NaN).
FSame(a, b) ==
    /\ a.k = b.k
    /\ IF a.k = "fin" THEN a.num * b.den = b.num * a.den ELSE a.num = b.num

RECURSIVE FSum(_)
FSum(xs) == IF xs = <<>> THEN Fin(0, 1) ELSE FAdd(Head(xs), FSum(Tail(xs)))

\* Tensor.mean() over the model dimension
FMean(xs) == FMul(FSum(xs), Fin(1, Len(xs)))

\* A tensor element: its value and the graph leaves its gradient can reach.
Tensor(v, g) == [val |-> v, grad |-> g]
Detach(t) == Tensor(t.val, {})
TAdd(a, b) == Tensor(FAdd(a.val, b.val), a.grad \cup b.grad)
TSub(a, b) == Tensor(FSub(a.val, b.val), a.grad \cup b.grad)
TMul(a, b) == Tensor(FMul(a.val, b.val), a.grad \cup b.grad)
TScale(c, a) == Tensor(FMul(c, a.val), a.grad)
\* torch.where(cond, a, b): the element, and its gradient path, of the chosen side
TWhere(cond, a, b) == IF cond THEN a ELSE b

(***************************************************************************)
(* SPAML (raylab/losses/paml.py).  The batch shape `*` is one element:     *)
(* every tensor below has one entry per model of the ensemble.             *)
(***************************************************************************)
MaxModels == 2        \* largest ensemble size

gamma == Fin(99, 100)
alpha == Fin(5, 100)
lambda_ == Fin(5, 100)

\* Exceptions
AssertionError == "AssertionError"
AttributeError == "AttributeError"
UnboundLocalError == "UnboundLocalError"
\* Any exception raised inside a collaborator (policy, model, critic, optimizer).
ComputationError == "ComputationError"

\* What the collaborators return for one model's element: the model's
\* log-density, the critics' value at the next state, the environment functions'
\* reward and termination flag, the policy's log-probability of the next action.
Rewards == {Fin(1, 1), Fin(-2, 1)}
NextQVals == {Fin(3, 1), PosInf, NaN}
LogPs == {Fin(0, 1), Fin(-2, 1)}
LogProbs == {Fin(-3, 1)}
ModelDraws ==
    [reward : Rewards, done : BOOLEAN, next_qval : NextQVals, logp : LogPs,
     log_prob : LogProbs]

\* What action_gradient_loss and maximum_likelihood_loss return for one model.
GradLosses == {Fin(0, 1), Fin(3, 1)}
MLELosses == {Fin(2, 1), Fin(7, 1)}
LossDraws == [grad : GradLosses, mle : MLELosses]

\* self._env.initialized (EnvFunctionsMixin, not among the sources)
EnvInitialized(e) == e.reward /\ e.termination

\* Mutant: the assertion is gone.
initializedUnchecked(e) == TRUE

\* SPAML.initialized
initialized(e) == EnvInitialized(e)

ModuleCall(module, idx, method) == [module |-> module, idx |-> idx, method |-> method]

\* Mutant: the ensemble is always queried with the plain sample.
ModelMethodAlwaysSample(est) == "sample"

\* grad_estimator is a plain string attribute: 'SF', 'PD', or anything else.
GradEstimators == {"SF", "PD", "other"}

\* transition(): which sampling method of each model the estimator selects;
\* neither branch is taken for a string that is neither 'SF' nor 'PD'.
ModelMethod(est) ==
    IF est = "SF" THEN "sample" ELSE IF est = "PD" THEN "rsample" ELSE "none"

\* transition(): model_outputs is bound by one of the two branches only.
TransitionError(est) == IF ModelMethod(est) = "none" THEN UnboundLocalError ELSE NoError

\* transition(): next_obs and log_prob of one model, as gradient paths go.
Transition(est, d) ==
    [next_obs_grad |-> IF ModelMethod(est) = "rsample" THEN {"action", "models"} ELSE {},
     log_prob |-> Tensor(d.log_prob, {"action", "models"})]

TransitionCalls(est, n) ==
    [i \in 1..n |-> ModuleCall("models", i - 1, ModelMethod(est))]

\* Mutant: the bootstrap is masked by multiplication instead of selected.
BootstrappedMasked(reward, done, next_qval) ==
    TAdd(reward, TScale(IF done THEN Fin(0, 1) ELSE Fin(1, 1), TScale(gamma, next_qval)))

\* torch.where(done, reward, reward + self.gamma * next_qval)
Bootstrapped(reward, done, next_qval) ==
    TWhere(done, reward, TAdd(reward, TScale(gamma, next_qval)))

\* next_vval
NextVVal(reward, done, next_qval, logp) ==
    TSub(Bootstrapped(reward, done, next_qval), TScale(alpha, logp))

\* The estimator's surrogate form.
Surrogate(est, log_prob, next_vval) ==
    IF est = "SF" THEN TMul(log_prob, Detach(next_vval)) ELSE next_vval

\* The autograd leaves: action is made one by generate_action
\* (requires_grad_(True) on a tensor computed under no_grad); the parameters of
\* the modules are the others.
GraphLeaves == {"action", "models", "policy", "critics"}

\* Mutant: the next value enters the 'SF' surrogate without detach().
SurrogateInputsNoDetach(est) ==
    IF est = "SF" THEN {"log_prob", "next_vval"} ELSE {"next_vval"}

\* The tensors the surrogate is built from, as autograd sees them.
SurrogateInputs(est) ==
    IF est = "SF" THEN {"log_prob"} ELSE {"next_vval"}

\* The tensors each tensor of one_step_action_value_surrogate is computed from.
\* The policy's parameters are frozen (requires_grad_(False)) while next_act and
\* logp are drawn, so they are not among the inputs autograd records.
GraphInputs(est, done, node) ==
    CASE node = "surrogate" -> SurrogateInputs(est)
      [] node = "next_vval" -> {"bootstrapped", "logp"}
      [] node = "bootstrapped" -> IF done THEN {"reward"} ELSE {"reward", "next_qval"}
      [] node = "reward" -> {"action", "next_obs"}
      [] node = "next_qval" -> {"next_obs", "next_act", "critics"}
      [] node = "logp" -> {"next_obs", "next_act"}
      [] node = "next_act" -> {"next_obs"}
      [] node = "next_obs" -> IF ModelMethod(est) = "rsample" THEN {"action", "models"} ELSE {}
      [] node = "log_prob" -> {"action", "models"}
      [] OTHER -> {}

\* Tensor.requires_grad: a leaf, or computed from a tensor that requires grad.
RECURSIVE RequiresGrad(_, _, _)
RequiresGrad(est, done, node) ==
    \/ node \in GraphLeaves
    \/ \E m \in GraphInputs(est, done, node) : RequiresGrad(est, done, m)

\* The tensors a backward pass from `nodes` visits.
RECURSIVE GradPaths(_, _, _)
GradPaths(est, done, nodes) ==
    LET next == {m \in UNION {GraphInputs(est, done, n) : n \in nodes} :
                   RequiresGrad(est, done, m)}
    IN  IF next \subseteq nodes THEN nodes
        ELSE GradPaths(est, done, nodes \cup next)

\* one_step_action_value_surrogate for one model's element; the policy's
\* parameters do not require gradients while the next action is drawn.
OneStep(est, d) ==
    LET tr == Transition(est, d)
        next_act_grad == tr.next_obs_grad
        logp == Tensor(d.logp, tr.next_obs_grad)
        next_qval == Tensor(d.next_qval, tr.next_obs_grad \cup next_act_grad \cup {"critics"})
        reward == Tensor(d.reward, {"action"} \cup tr.next_obs_grad)
        next_vval == NextVVal(reward, d.done, next_qval, logp)
    IN  [draw |-> d,
         bootstrapped |-> Bootstrapped(reward, d.done, next_qval),
         next_vval |-> next_vval,
         surrogate |-> Surrogate(est, tr.log_prob, next_vval),
         paths |-> GradPaths(est, d.done, {"surrogate"})]

\* The module calls of one_step_action_value_surrogate, in order.
OneStepCalls(est, n) ==
    TransitionCalls(est, n)
    \o <<ModuleCall("policy", -1, "requires_grad_(False)"),
         ModuleCall("policy", -1, "rsample")>>

OneStepCallsAfterRsample ==
    <<ModuleCall("policy", -1, "requires_grad_(True)"),
      ModuleCall("critics", -1, "__call__"),
      ModuleCall("env", -1, "reward"),
      ModuleCall("env", -1, "termination")>>

\* Mutant: the regulariser is added with weight one.
PerModelLossNoLambda(g, m) == FAdd(g, m)

\* loss = grad_loss + self.lambda_ * mle_loss, for one model
PerModelLoss(g, m) == FAdd(g, FMul(lambda_, m))

\* f"loss(models[{i}])"
InfoKey(i) == "loss(models[" \o ToString(i) \o "])"

\* The info record of __call__.
Info(loss, grad_loss, mle_loss) ==
    LET keys == {InfoKey(i - 1) : i \in 1..Len(loss)} \cup {"loss(daml)", "loss(mle)"}
    IN  [key \in keys |->
           IF key = "loss(daml)" THEN FMean(grad_loss)
           ELSE IF key = "loss(mle)" THEN FMean(mle_loss)
           ELSE loss[CHOOSE i \in 1..Len(loss) : InfoKey(i - 1) = key]]

NoInfo == [key \in {} |-> NaN]

NoOutcome ==
    [method |-> "none", status |-> "none", error |-> NoError, calls |-> <<>>,
     loss |-> <<>>, info |-> NoInfo, grad_loss |-> <<>>, mle_loss |-> <<>>,
     cells |-> <<>>]

\* A method call ended with an exception after making `calls`.
Raised(method, e, calls) ==
    [NoOutcome EXCEPT !.method = method, !.status = "raised", !.error = e,
                      !.calls = calls]

\* set_reward_fn (EnvFunctionsMixin)
SetRewardFn ==
    /\ outcome = NoOutcome
    /\ ~env.reward
    /\ env' = [env EXCEPT !.reward = TRUE]
    /\ UNCHANGED <<grad_estimator, ensemble_size, compiled, policy_requires_grad, outcome>>
    /\ UNCHANGED <<replayVars, trainVars, initVars, policyVars, auxVars>>

\* set_termination_fn (EnvFunctionsMixin)
SetTerminationFn ==
    /\ outcome = NoOutcome
    /\ ~env.termination
    /\ env' = [env EXCEPT !.termination = TRUE]
    /\ UNCHANGED <<grad_estimator, ensemble_size, compiled, policy_requires_grad, outcome>>
    /\ UNCHANGED <<replayVars, trainVars, initVars, policyVars, auxVars>>

\* The owner of the loss assigns the public attribute grad_estimator.
SetGradEstimator ==
    /\ outcome = NoOutcome
    /\ \E est \in GradEstimators : est # grad_estimator /\ grad_estimator' = est
    /\ UNCHANGED <<env, ensemble_size, compiled, policy_requires_grad, outcome>>
    /\ UNCHANGED <<replayVars, trainVars, initVars, policyVars, auxVars>>

\* compile()
Compile ==
    /\ outcome = NoOutcome
    /\ ~compiled
    /\ compiled' = TRUE
    /\ UNCHANGED <<env, grad_estimator, ensemble_size, policy_requires_grad, outcome>>
    /\ UNCHANGED <<replayVars, trainVars, initVars, policyVars, auxVars>>

\* __call__(batch).  `raises`: the policy's rsample raises an exception.
Call ==
    /\ outcome = NoOutcome
    /\ \E raises \in BOOLEAN :
       \E draws \in [1..ensemble_size -> LossDraws] :
         LET before == <<ModuleCall("policy", -1, "sample"),
                         ModuleCall("critics", -1, "__call__")>>
                       \o OneStepCalls(grad_estimator, ensemble_size)
             after == OneStepCallsAfterRsample
                      \o <<ModuleCall("autograd", -1, "grad"),
                           ModuleCall("loss_mle", -1, "__call__")>>
             grad_loss == [i \in 1..ensemble_size |-> draws[i].grad]
             mle_loss == [i \in 1..ensemble_size |-> draws[i].mle]
             loss == [i \in 1..ensemble_size |-> PerModelLoss(grad_loss[i], mle_loss[i])]
         IN  IF ~initialized(env)
             THEN /\ draws = [i \in 1..ensemble_size |-> [grad |-> Fin(0, 1), mle |-> Fin(2, 1)]]
                  /\ ~raises
                  /\ outcome' = Raised("__call__", AssertionError, <<>>)
                  /\ UNCHANGED policy_requires_grad
             ELSE IF TransitionError(grad_estimator) # NoError
             THEN /\ draws = [i \in 1..ensemble_size |-> [grad |-> Fin(0, 1), mle |-> Fin(2, 1)]]
                  /\ ~raises
                  /\ outcome' = Raised("__call__", TransitionError(grad_estimator),
                                       <<ModuleCall("policy", -1, "sample"),
                                         ModuleCall("critics", -1, "__call__")>>)
                  /\ UNCHANGED policy_requires_grad
             ELSE IF raises
             THEN /\ draws = [i \in 1..ensemble_size |-> [grad |-> Fin(0, 1), mle |-> Fin(2, 1)]]
                  /\ outcome' = Raised("__call__", ComputationError, before)
                  /\ policy_requires_grad' = FALSE
             ELSE /\ outcome' = [NoOutcome EXCEPT
                                   !.method = "__call__", !.status = "ok",
                                   !.calls = before \o after,
                                   !.loss = loss,
                                   !.info = Info(loss, grad_loss, mle_loss),
                                   !.grad_loss = grad_loss,
                                   !.mle_loss = mle_loss]
                  /\ policy_requires_grad' = TRUE
    /\ UNCHANGED <<env, grad_estimator, ensemble_size, compiled>>
    /\ UNCHANGED <<replayVars, trainVars, initVars, policyVars, auxVars>>

\* one_step_action_value_surrogate(obs, action), called on an initialised loss
OneStepActionValueSurrogate ==
    /\ outcome = NoOutcome
    /\ initialized(env)
    /\ \E raises \in BOOLEAN :
       \E draws \in [1..ensemble_size -> ModelDraws] :
         IF TransitionError(grad_estimator) # NoError
         THEN /\ draws = [i \in 1..ensemble_size |->
                            [reward |-> Fin(1, 1), done |-> FALSE, next_qval |-> Fin(3, 1),
                             logp |-> Fin(0, 1), log_prob |-> Fin(-3, 1)]]
              /\ ~raises
              /\ outcome' = Raised("one_step_action_value_surrogate",
                                   TransitionError(grad_estimator), <<>>)
              /\ UNCHANGED policy_requires_grad
         ELSE IF raises
         THEN /\ draws = [i \in 1..ensemble_size |->
                            [reward |-> Fin(1, 1), done |-> FALSE, next_qval |-> Fin(3, 1),
                             logp |-> Fin(0, 1), log_prob |-> Fin(-3, 1)]]
              /\ outcome' = Raised("one_step_action_value_surrogate", ComputationError,
                                   OneStepCalls(grad_estimator, ensemble_size))
              /\ policy_requires_grad' = FALSE
         ELSE /\ outcome' = [NoOutcome EXCEPT
                               !.method = "one_step_action_value_surrogate",
                               !.status = "ok",
                               !.calls = OneStepCalls(grad_estimator, ensemble_size)
                                         \o OneStepCallsAfterRsample,
                               !.cells = [i \in 1..ensemble_size |->
                                            OneStep(grad_estimator, draws[i])]]
              /\ policy_requires_grad' = TRUE
    /\ UNCHANGED <<env, grad_estimator, ensemble_size, compiled>>
    /\ UNCHANGED <<replayVars, trainVars, initVars, policyVars, auxVars>>

\* The caller takes the result (or the exception) of the method call.
Return ==
    /\ outcome # NoOutcome
    /\ outcome' = NoOutcome
    /\ UNCHANGED <<env, grad_estimator, ensemble_size, compiled, policy_requires_grad>>
    /\ UNCHANGED <<replayVars, trainVars, initVars, policyVars, auxVars>>

\* SPAML.__init__
InitSPAMLObject ==
    /\ env = [reward |-> FALSE, termination |-> FALSE]
    /\ grad_estimator = "SF"
    /\ ensemble_size \in 1..MaxModels
    /\ compiled = FALSE
    /\ policy_requires_grad = TRUE
    /\ outcome = NoOutcome

\* No loss object takes part in SpecReplay and SpecTrain.
NoSPAML ==
    /\ env = [reward |-> FALSE, termination |-> FALSE]
    /\ grad_estimator = "SF"
    /\ ensemble_size = 0
    /\ compiled = FALSE
    /\ policy_requires_grad = TRUE
    /\ outcome = NoOutcome

(***************************************************************************)
(* The trust-region policy update with backtracking line search.  The      *)
(* policy that implements it (raylab/algorithms/trpo) is not among the     *)
(* sources, only its options are (acktr.py); the update is modelled from   *)
(* the specification: the candidate step is applied, shrunk by             *)
(* backtrack_ratio up to max_backtracks times until the improvement ratio  *)
(* exceeds accept_ratio and the KL divergence is within tolerance; if none *)
(* is accepted the parameters are restored and a line-search failure is    *)
(* reported.  Without line search the step is applied unconditionally.     *)
(***************************************************************************)
MaxBacktracks == 3    \* largest max_backtracks tried
MaxUpdates == 2       \* policy updates in a run

accept_ratio == Fin(1, 10)
backtrack_ratio == Fin(8, 10)

\* a < b for finite values
FLess(a, b) == a.k = "fin" /\ b.k = "fin" /\ a.num * b.den < b.num * a.den

LineSearchConfigs == [line_search : BOOLEAN, max_backtracks : 0..MaxBacktracks]

\* The scaled natural-gradient steps an update may start from.
Steps == {Fin(1, 1), Fin(-2, 1)}
\* The improvement-to-predicted-improvement ratio observed for a candidate.
Ratios == {Fin(0, 1), Fin(-1, 2), Fin(1, 2)}

NoStats == [updated |-> FALSE, line_search_failure |-> FALSE, backtracks |-> 0]

\* A candidate is accepted.
Accepted(ratio, kl_ok) == FLess(accept_ratio, ratio) /\ kl_ok

\* Mutant: on rejection the last candidate is left in place.
RestoredLeavingCandidate(old, current) == current

\* The parameters after a rejected update.
Restored(old, current) == old

\* The update begins: the parameters are saved and the step is computed.
BeginPolicyUpdate ==
    /\ ls_pc = "idle"
    /\ ls_updates < MaxUpdates
    /\ \E step \in Steps :
         /\ theta_old' = theta
         /\ ls_step' = step
         /\ ls_tried' = <<>>
         /\ IF line_search_config.line_search
            THEN /\ ls_pc' = "search"
                 /\ UNCHANGED <<theta, ls_stats, ls_updates>>
            ELSE /\ theta' = FAdd(theta, step)
                 /\ ls_stats' = [NoStats EXCEPT !.updated = TRUE]
                 /\ ls_updates' = ls_updates + 1
                 /\ ls_pc' = "idle"
    /\ UNCHANGED line_search_config
    /\ UNCHANGED <<replayVars, trainVars, spamlVars, initVars, policyVars, klVars>>

\* One candidate of the line search is applied and evaluated.
TryCandidate ==
    /\ ls_pc = "search"
    /\ Len(ls_tried) < line_search_config.max_backtracks
    /\ \E ratio \in Ratios, kl_ok \in BOOLEAN :
         /\ theta' = FAdd(theta_old, ls_step)
         /\ ls_tried' = Append(ls_tried, [ratio |-> ratio, kl_ok |-> kl_ok])
         /\ IF Accepted(ratio, kl_ok)
            THEN /\ ls_stats' = [NoStats EXCEPT !.updated = TRUE,
                                                !.backtracks = Len(ls_tried)]
                 /\ ls_updates' = ls_updates + 1
                 /\ ls_pc' = "idle"
                 /\ UNCHANGED ls_step
            ELSE /\ ls_step' = FMul(ls_step, backtrack_ratio)
                 /\ UNCHANGED <<ls_stats, ls_updates, ls_pc>>
    /\ UNCHANGED <<line_search_config, theta_old>>
    /\ UNCHANGED <<replayVars, trainVars, spamlVars, initVars, policyVars, klVars>>

\* No candidate was accepted: the update is rejected.
RejectUpdate ==
    /\ ls_pc = "search"
    /\ Len(ls_tried) = line_search_config.max_backtracks
    /\ theta' = Restored(theta_old, theta)
    /\ ls_stats' = [NoStats EXCEPT !.line_search_failure = TRUE,
                                   !.backtracks = Len(ls_tried)]
    /\ ls_updates' = ls_updates + 1
    /\ ls_pc' = "idle"
    /\ UNCHANGED <<line_search_config, theta_old, ls_step, ls_tried>>
    /\ UNCHANGED <<replayVars, trainVars, spamlVars, initVars, policyVars, klVars>>

\* No policy update takes part in the other specifications.
NoLineSearch ==
    /\ line_search_config = [line_search |-> FALSE, max_backtracks |-> 0]
    /\ theta = Fin(0, 1)
    /\ theta_old = Fin(0, 1)
    /\ ls_step = Fin(0, 1)
    /\ ls_tried = <<>>
    /\ ls_pc = "idle"
    /\ ls_stats = NoStats
    /\ ls_updates = 0

\* The adaptive KL penalty.  policy.update_kl_coeff (raylab.utils.adaptive_kl) is
\* not among the sources; it is modelled from the specification: the coefficient
\* is scaled up by a bounded factor when the observed divergence exceeds the
\* target, scaled down when it is below half the target, and left alone otherwise.
target_kl == Fin(1, 100)
initial_coeff == Fin(1, 1)
adaptation_coeff == Fin(3, 2)

\* The divergences an adaptation may observe: none, half the target, the target,
\* twice the target.
ObservedKLs == {Fin(0, 1), Fin(1, 200), Fin(1, 100), Fin(2, 100)}

\* Mutant: the coefficient is scaled down whenever the target is not exceeded.
AdaptedDecreaseOtherwise(coeff, kl) ==
    IF FLess(target_kl, kl) THEN FMul(coeff, adaptation_coeff)
    ELSE FMul(coeff, Fin(2, 3))

\* The coefficient after an adaptation that observed kl.
Adapted(coeff, kl) ==
    IF FLess(target_kl, kl) THEN FMul(coeff, adaptation_coeff)
    ELSE IF FLess(kl, FMul(target_kl, Fin(1, 2))) THEN FMul(coeff, Fin(2, 3))
    ELSE coeff

NoAdaptation == [n |-> 0, kl |-> Fin(0, 1), before |-> initial_coeff, after |-> initial_coeff]

\* The policy stays on target: no adaptation changes the coefficient.
NoKL ==
    /\ kl_coeff = initial_coeff
    /\ kl_observable = {target_kl}
    /\ kl_last = NoAdaptation

NoAux == NoLineSearch /\ NoKL

(***************************************************************************)
(* The trainers.  One object of one of four classes:                       *)
(*   "SVGInf"        raylab/agents/svg/svg_inf.py      (canonical)         *)
(*   "SVGInfLegacy"  raylab/algorithms/svg/svg_inf.py                      *)
(*   "NAF"           raylab/algorithms/naf/naf.py                          *)
(*   "SVGOne"        raylab/algorithms/svg/svg_one.py                      *)
(***************************************************************************)
MaxCount == 2         \* largest samples.count a worker.sample() returns
MaxRollouts == 2      \* worker.sample() calls per run, over all _train calls

Trainers == {"SVGInf", "SVGInfLegacy", "NAF", "SVGOne"}

BufferSizes == {1, 2}
TrainBatchSizes == {1, 2}
\* updates_per_step as an exact fraction; the values are binary fractions, so the
\* float product samples.count * updates_per_step is exact.
UpdatesPerStep == {[num |-> 0, den |-> 1], [num |-> 1, den |-> 2],
                   [num |-> 1, den |-> 1], [num |-> 3, den |-> 2]}
\* timesteps_per_iteration; nothing validates it, 0 asks for no minimum
TimestepsPerIteration == {0, 1, 3}
\* pure_exploration_steps; 0 turns the gate off
PureExplorationSteps == {0, 1}

Configs(t) ==
    [buffer_size : BufferSizes,
     train_batch_size : TrainBatchSizes,
     updates_per_step : IF t = "SVGInf" THEN UpdatesPerStep ELSE {[num |-> 1, den |-> 1]},
     timesteps_per_iteration : IF t = "NAF" THEN TimestepsPerIteration ELSE {1},
     pure_exploration_steps : IF t = "NAF" THEN PureExplorationSteps ELSE {0}]

\* Statistics records: metric name -> value.
StatKeys == {"loss", "grad_norm"}
EmptyStats == [k \in {} |-> 0]
\* What one learn_on_batch (or update_kl_coeff) call may report: any subset of the
\* metrics, every value being the number v that identifies the call (the pass of
\* the off-policy loop, 1-based; 0 for the on-policy update and the KL update).
StatsRecords(v) == {[k \in D |-> v] : D \in SUBSET StatKeys}

\* A local name that may not have been assigned yet.
Unbound == [bound |-> FALSE, val |-> EmptyStats]
Bound(v) == [bound |-> TRUE, val |-> v]

\* Batches carry where they came from: worker.sample() or replay.sample().
NoBatch == [origin |-> "none", serial |-> 0, rows |-> <<>>]
Count(b) == Len(b.rows)

Event(op, origin, val) ==
    [op |-> op, origin |-> origin, val |-> val, off |-> off_policy_learning,
     explore |-> pure_exploration, total |-> num_steps_sampled + steps_sampled]

\* Mutant: dict merge with the precedence reversed.
MergeOffWins(off, on) ==
    [k \in DOMAIN off \cup DOMAIN on |-> IF k \in DOMAIN off THEN off[k] ELSE on[k]]

\* {**off_policy_stats, **on_policy_stats}
MergeStats(off, on) ==
    [k \in DOMAIN off \cup DOMAIN on |-> IF k \in DOMAIN on THEN on[k] ELSE off[k]]

\* Mutant: one off-policy update per sampled transition, whatever updates_per_step.
UpdateCountIgnoringRatio(t, c, cfg) == c

\* Mutant: at least one off-policy update is made, whatever the batch.
UpdateCountAtLeastOne(t, c, cfg) ==
    IF t = "SVGInf"
    THEN Max((c * cfg.updates_per_step.num) \div cfg.updates_per_step.den, 1)
    ELSE Max(c, 1)

\* The bound of the off-policy for loop for a batch of c transitions.
UpdateCount(t, c, cfg) ==
    IF t = "SVGInf"
    THEN (c * cfg.updates_per_step.num) \div cfg.updates_per_step.den
    ELSE c

\* `for row in samples.rows()`; the legacy SVG(inf) trainer calls samples.row(),
\* which a SampleBatch does not have.
RowsCall(t) == IF t = "SVGInfLegacy" THEN AttributeError ELSE NoError

RECURSIVE AddAll(_, _)
AddAll(buf, rows) ==
    IF rows = <<>> THEN buf ELSE AddAll(ReplayAdd(buf, Head(rows)), Tail(rows))

\* Mutant: the on-policy update learns on the last replay minibatch.
OnPolicyBatchFromReplay(s, b) == b

\* The batch the on-policy learn_on_batch is given: `samples`.
OnPolicyBatch(s, b) == s

\* Mutant: the off-policy update learns on the fresh rollout.
OffPolicyBatchFromWorker(s, b) == s

\* The batch an off-policy learn_on_batch is given: `batch`.
OffPolicyBatch(s, b) == b

\* Mutant: the on-policy update is made before the off-policy loop.
StepAfterOnPolicyFirst(t, step) ==
    CASE step = "sample" -> "rows"
      [] step = "rows" -> IF t \in {"SVGInf", "SVGInfLegacy"} THEN "on_policy" ELSE "updates"
      [] step = "on_policy" -> "updates"
      [] step = "updates" -> "off_policy"
      [] step = "off_policy" -> IF t \in {"SVGInf", "SVGInfLegacy"} THEN "report" ELSE "loop_head"
      [] step = "report" -> "returned"

\* The statement order of _train: the step that follows `step` when it completes.
StepAfter(t, step) ==
    CASE step = "sample" -> "rows"
      [] step = "rows" -> "updates"
      [] step = "updates" -> "off_policy"
      [] step = "off_policy" -> IF t \in {"SVGInf", "SVGInfLegacy"} THEN "on_policy" ELSE "loop_head"
      [] step = "on_policy" -> "report"
      [] step = "report" -> "returned"

locals == <<samples, batch, loop_n, loop_i, off_policy_stats, on_policy_stats,
            steps_sampled, time_up>>

\* Mutant: an exception leaves the off-policy mode as it is.
RaiseKeepingMode(e) ==
    /\ pc' = "raised"
    /\ error' = e
    /\ UNCHANGED off_policy_learning

\* An exception leaves _train.  Inside `with policy.learning_off_policy()` the
\* context manager restores the mode on the way out.
Raise(e) ==
    /\ pc' = "raised"
    /\ error' = e
    /\ off_policy_learning' = IF trainer = "SVGInf" THEN FALSE ELSE off_policy_learning

\* _train is entered.
Begin ==
    /\ pc \in {"idle", "returned", "raised"}
    /\ pc' = IF trainer \in {"NAF", "SVGOne"} THEN "loop_head" ELSE "sample"
    /\ error' = NoError
    /\ rounds' = 0
    /\ samples' = NoBatch
    /\ batch' = NoBatch
    /\ loop_n' = 0
    /\ loop_i' = 0
    /\ off_policy_stats' = Unbound
    /\ on_policy_stats' = Unbound
    /\ result' = Unbound
    /\ steps_sampled' = 0
    /\ time_up' = FALSE
    /\ events' = <<>>
    /\ kl_last' = NoAdaptation
    /\ UNCHANGED <<spamlVars, initVars, policyVars, lsVars, kl_coeff, kl_observable>>
    /\ UNCHANGED <<replay, n_added, last_sample, trainer, config, n_rollouts,
                   num_steps_sampled, num_steps_trained, off_policy_learning>>

\* update_exploration_phase: the phase the policies are put in, given the
\* global timestep; with pure_exploration_steps = 0 they are left as they are.
OnlyExplore(global_timestep, pure_expl_steps, phase) ==
    IF pure_expl_steps # 0 THEN global_timestep < pure_expl_steps ELSE phase

\* NAF: top of `while True`: self.update_exploration_phase()
UpdateExplorationPhase ==
    /\ pc = "loop_head"
    /\ trainer = "NAF"
    /\ rounds' = rounds + 1
    /\ events' = <<Event("update_exploration_phase", "none", num_steps_sampled)>>
    /\ pure_exploration' = OnlyExplore(num_steps_sampled, config.pure_exploration_steps,
                                       pure_exploration)
    /\ pc' = "sample"
    /\ UNCHANGED <<spamlVars, initVars, auxVars>>
    /\ UNCHANGED <<replay, n_added, last_sample, trainer, config, error,
                   n_rollouts, locals, result, num_steps_sampled, num_steps_trained,
                   off_policy_learning>>

\* SVG(1): `while not self._iteration_done()`
IterationDone ==
    /\ pc = "loop_head"
    /\ trainer = "SVGOne"
    /\ \E done \in BOOLEAN :
         IF done
         THEN pc' = "report" /\ rounds' = rounds /\ events' = events
              /\ UNCHANGED kl_last
         ELSE pc' = "sample" /\ rounds' = rounds + 1 /\ events' = <<>>
              /\ kl_last' = NoAdaptation
    /\ UNCHANGED <<spamlVars, initVars, policyVars, lsVars, kl_coeff, kl_observable>>
    /\ UNCHANGED <<replay, n_added, last_sample, trainer, config, error,
                   n_rollouts, locals, result, num_steps_sampled, num_steps_trained,
                   off_policy_learning>>

\* samples = worker.sample(); the step counter of the trainer is advanced.
WorkerSample ==
    /\ pc = "sample"
    /\ n_rollouts < MaxRollouts
    /\ \E c \in 0..MaxCount :
         /\ samples' = [origin |-> "worker", serial |-> n_rollouts + 1,
                        rows |-> [j \in 1..c |-> n_added + j - 1]]
         /\ IF trainer = "NAF"
            THEN steps_sampled' = steps_sampled + c /\ UNCHANGED num_steps_sampled
            ELSE num_steps_sampled' = num_steps_sampled + c /\ UNCHANGED steps_sampled
    /\ n_rollouts' = n_rollouts + 1
    /\ events' = Append(events, Event("worker.sample", "worker", n_rollouts + 1))
    /\ pc' = StepAfter(trainer, "sample")
    /\ UNCHANGED <<spamlVars, initVars, policyVars, auxVars>>
    /\ UNCHANGED <<replay, n_added, last_sample, trainer, config, error, rounds,
                   batch, loop_n, loop_i, off_policy_stats, on_policy_stats, time_up,
                   result, num_steps_trained, off_policy_learning>>

\* for row in samples.rows(): self.replay.add(row)
AddRows ==
    /\ pc = "rows"
    /\ IF RowsCall(trainer) # NoError
       THEN /\ Raise(RowsCall(trainer))
            /\ UNCHANGED <<replay, n_added, events>>
       ELSE /\ replay' = AddAll(replay, samples.rows)
            /\ n_added' = n_added + Count(samples)
            /\ events' = events \o [j \in 1..Count(samples) |->
                                      Event("replay.add", samples.origin, samples.rows[j])]
            /\ pc' = StepAfter(trainer, "rows")
            /\ UNCHANGED <<error, off_policy_learning>>
    /\ UNCHANGED <<spamlVars, initVars, policyVars, auxVars>>
    /\ UNCHANGED <<last_sample, trainer, config, rounds, n_rollouts, locals,
                   result, num_steps_sampled, num_steps_trained>>

\* What precedes the off-policy for loop, and the evaluation of its range(...).
BeginUpdates ==
    /\ pc = "updates"
    /\ off_policy_learning' =
         IF trainer \in {"SVGInf", "SVGInfLegacy"} THEN TRUE ELSE off_policy_learning
    /\ events' = IF trainer = "SVGOne"
                 THEN Append(events, Event("update_old_policy", "none", 0))
                 ELSE events
    /\ loop_n' = UpdateCount(trainer, Count(samples), config)
    /\ loop_i' = 0
    /\ pc' = StepAfter(trainer, "updates")
    /\ UNCHANGED <<spamlVars, initVars, policyVars, auxVars>>
    /\ UNCHANGED <<replay, n_added, last_sample, trainer, config, error, rounds,
                   n_rollouts, samples, batch, off_policy_stats, on_policy_stats,
                   steps_sampled, time_up, result, num_steps_sampled, num_steps_trained>>

\* One pass of the off-policy for loop:
\*   batch = self.replay.sample(train_batch_size)
\*   off_policy_stats = get_learner_stats(policy.learn_on_batch(batch))
\*   num_steps_trained += batch.count
OffPolicyUpdate ==
    /\ pc = "off_policy"
    /\ loop_i < loop_n
    /\ \E out \in ReplaySample(replay, config.train_batch_size) :
       \E raises \in BOOLEAN :
       \E stats \in StatsRecords(loop_i + 1) :
         LET drawn == [origin |-> "replay", serial |-> 0, rows |-> out.rows]
             given == OffPolicyBatch(samples, drawn)
             e1 == Event("replay.sample", "replay", config.train_batch_size)
             e2 == Event("learn_on_batch", given.origin, given.serial)
         IN  IF out.err # NoError
             THEN /\ Raise(out.err)
                  /\ events' = Append(events, e1)
                  /\ UNCHANGED <<batch, off_policy_stats, num_steps_trained, loop_i>>
             ELSE /\ batch' = drawn
                  /\ events' = events \o <<e1, e2>>
                  /\ IF raises
                     THEN /\ Raise(ComputationError)
                          /\ stats = EmptyStats
                          /\ UNCHANGED <<off_policy_stats, num_steps_trained, loop_i>>
                     ELSE /\ off_policy_stats' = Bound(stats)
                          /\ num_steps_trained' = num_steps_trained + Count(drawn)
                          /\ loop_i' = loop_i + 1
                          /\ UNCHANGED <<pc, error, off_policy_learning>>
    /\ UNCHANGED <<spamlVars, initVars, policyVars, auxVars>>
    /\ UNCHANGED <<replay, n_added, last_sample, trainer, config, rounds,
                   n_rollouts, samples, loop_n, on_policy_stats, steps_sampled, time_up,
                   result, num_steps_sampled>>

\* SVG(inf): the for loop is exhausted; the off-policy mode is left.
EndOffPolicy ==
    /\ pc = "off_policy"
    /\ loop_i = loop_n
    /\ trainer \in {"SVGInf", "SVGInfLegacy"}
    /\ off_policy_learning' = FALSE
    /\ pc' = StepAfter(trainer, "off_policy")
    /\ UNCHANGED <<spamlVars, initVars, policyVars, auxVars>>
    /\ UNCHANGED <<replay, n_added, last_sample, trainer, config, error, rounds,
                   n_rollouts, locals, result, num_steps_sampled, num_steps_trained,
                   events>>

\* NAF: the for loop is exhausted; the break test, then either the next round or
\*   self.num_steps_sampled += steps_sampled; return fetches
NAFBreakTest ==
    /\ pc = "off_policy"
    /\ loop_i = loop_n
    /\ trainer = "NAF"
    /\ \E now \in BOOLEAN :
         /\ time_up' = (time_up \/ now)
         /\ IF time_up' /\ steps_sampled >= config.timesteps_per_iteration
            THEN /\ num_steps_sampled' = num_steps_sampled + steps_sampled
                 /\ IF off_policy_stats.bound
                    THEN /\ result' = off_policy_stats
                         /\ pc' = "returned"
                         /\ UNCHANGED <<error, off_policy_learning>>
                    ELSE /\ Raise(UnboundLocalError)
                         /\ UNCHANGED result
            ELSE /\ pc' = StepAfter(trainer, "off_policy")
                 /\ UNCHANGED <<num_steps_sampled, result, error, off_policy_learning>>
    /\ UNCHANGED <<spamlVars, initVars, policyVars, auxVars>>
    /\ UNCHANGED <<replay, n_added, last_sample, trainer, config, rounds,
                   n_rollouts, samples, batch, loop_n, loop_i, off_policy_stats,
                   on_policy_stats, steps_sampled, num_steps_trained, events>>

\* SVG(1): the for loop is exhausted;
\*   learner_stats.update(policy.update_kl_coeff(samples))
UpdateKLCoeff ==
    /\ pc = "off_policy"
    /\ loop_i = loop_n
    /\ trainer = "SVGOne"
    /\ \E kl \in StatsRecords(0), observed \in kl_observable :
         IF off_policy_stats.bound
         THEN /\ off_policy_stats' = Bound(MergeStats(off_policy_stats.val, kl))
              /\ events' = Append(events, Event("update_kl_coeff", samples.origin, samples.serial))
              /\ kl_coeff' = Adapted(kl_coeff, observed)
              /\ kl_last' = [n |-> 1, kl |-> observed, before |-> kl_coeff,
                              after |-> kl_coeff']
              /\ pc' = StepAfter(trainer, "off_policy")
              /\ UNCHANGED <<error, off_policy_learning>>
         ELSE /\ kl = EmptyStats
              /\ observed = target_kl
              /\ Raise(UnboundLocalError)
              /\ UNCHANGED <<off_policy_stats, events, kl_coeff, kl_last>>
    /\ UNCHANGED <<spamlVars, initVars, policyVars, lsVars, kl_observable>>
    /\ UNCHANGED <<replay, n_added, last_sample, trainer, config, rounds,
                   n_rollouts, samples, batch, loop_n, loop_i, on_policy_stats,
                   steps_sampled, time_up, result, num_steps_sampled, num_steps_trained>>

\* SVG(inf): on_policy_stats = get_learner_stats(policy.learn_on_batch(samples))
OnPolicyUpdate ==
    /\ pc = "on_policy"
    /\ \E raises \in BOOLEAN :
       \E stats \in StatsRecords(0) :
         LET given == OnPolicyBatch(samples, batch)
         IN  /\ events' = Append(events, Event("learn_on_batch", given.origin, given.serial))
             /\ IF raises
                THEN /\ stats = EmptyStats
                     /\ Raise(ComputationError)
                     /\ UNCHANGED on_policy_stats
                ELSE /\ on_policy_stats' = Bound(stats)
                     /\ pc' = StepAfter(trainer, "on_policy")
                     /\ UNCHANGED <<error, off_policy_learning>>
    /\ UNCHANGED <<spamlVars, initVars, policyVars, auxVars>>
    /\ UNCHANGED <<replay, n_added, last_sample, trainer, config, rounds,
                   n_rollouts, samples, batch, loop_n, loop_i, off_policy_stats,
                   steps_sampled, time_up, result, num_steps_sampled, num_steps_trained>>

\* SVG(inf): learner_stats = {**off_policy_stats, **on_policy_stats}, then the
\* metrics are logged and returned.  SVG(1): return self._log_metrics(learner_stats).
Report ==
    /\ pc = "report"
    /\ IF ~off_policy_stats.bound
       THEN /\ Raise(UnboundLocalError)
            /\ UNCHANGED <<result, events>>
       ELSE /\ result' = IF trainer = "SVGOne"
                         THEN off_policy_stats
                         ELSE Bound(MergeStats(off_policy_stats.val, on_policy_stats.val))
            /\ events' = Append(events, Event("log_metrics", "none", 0))
            /\ pc' = StepAfter(trainer, "report")
            /\ UNCHANGED <<error, off_policy_learning>>
    /\ UNCHANGED <<spamlVars, initVars, policyVars, auxVars>>
    /\ UNCHANGED <<replay, n_added, last_sample, trainer, config, rounds,
                   n_rollouts, locals, num_steps_sampled, num_steps_trained>>

\* The trainer after construction, before its first _train call.
TrainerConstructed ==
    /\ config \in Configs(trainer)
    /\ replay = ReplayBuffer(config.buffer_size)
    /\ n_added = 0
    /\ last_sample = [k |-> 0, err |-> NoError, rows |-> <<>>, called |-> FALSE]
    /\ pc = "idle"
    /\ error = NoError
    /\ rounds = 0
    /\ n_rollouts = 0
    /\ samples = NoBatch
    /\ batch = NoBatch
    /\ loop_n = 0
    /\ loop_i = 0
    /\ off_policy_stats = Unbound
    /\ on_policy_stats = Unbound
    /\ result = Unbound
    /\ num_steps_sampled = 0
    /\ num_steps_trained = 0
    /\ steps_sampled = 0
    /\ time_up = FALSE
    /\ off_policy_learning = FALSE
    /\ events = <<>>
    /\ NoSPAML
    /\ num_workers = 0
    /\ made = {"workers", "replay"}
    /\ pure_exploration = FALSE

InitTrain ==
    /\ trainer \in Trainers
    /\ TrainerConstructed
    /\ NoAux

NextTrain ==
    \/ Begin
    \/ UpdateExplorationPhase
    \/ IterationDone
    \/ WorkerSample
    \/ AddRows
    \/ BeginUpdates
    \/ OffPolicyUpdate
    \/ EndOffPolicy
    \/ NAFBreakTest
    \/ UpdateKLCoeff
    \/ OnPolicyUpdate
    \/ Report

SpecTrain == InitTrain /\ [][NextTrain]_vars

(***************************************************************************)
(* SpecSVGOne: the SVG(1) trainer alone, with a policy whose divergence    *)
(* from the old policy can be anywhere around the target.                  *)
(***************************************************************************)
InitSVGOne ==
    /\ trainer = "SVGOne"
    /\ TrainerConstructed
    /\ NoLineSearch
    /\ kl_coeff = initial_coeff
    /\ kl_observable = ObservedKLs
    /\ kl_last = NoAdaptation

NextSVGOne ==
    \/ Begin
    \/ IterationDone
    \/ WorkerSample
    \/ AddRows
    \/ BeginUpdates
    \/ OffPolicyUpdate
    \/ UpdateKLCoeff
    \/ Report

SpecSVGOne == InitSVGOne /\ [][NextSVGOne]_vars

(***************************************************************************)
(* SpecInit: Trainer._init of the two trainers whose _init is in the       *)
(* sources (NAFTrainer and the legacy SVGInfTrainer), statement by         *)
(* statement, for any configuration.                                       *)
(***************************************************************************)
MaxWorkers == 2       \* largest config["num_workers"] tried

InitTrainers == {"NAF", "SVGInfLegacy"}
NumWorkers == -1..MaxWorkers

\* self.replay before _init has assigned it
NoReplay == [storage |-> <<>>, next_idx |-> 0, maxsize |-> 0]

\* _validate_config: the condition each trainer asserts.
ValidConfig(t, n) == IF t = "NAF" THEN n >= 0 ELSE n = 0

\* self._validate_config(config)
ValidateConfig ==
    /\ pc = "new"
    /\ IF ValidConfig(trainer, num_workers)
       THEN pc' = "make_workers" /\ UNCHANGED error
       ELSE pc' = "raised" /\ error' = AssertionError
    /\ UNCHANGED <<made, num_workers, replay, n_added, last_sample>>
    /\ UNCHANGED <<trainer, config, rounds, n_rollouts, locals, result, num_steps_sampled,
                   num_steps_trained, off_policy_learning, events, spamlVars, policyVars, auxVars>>

\* self.workers = self._make_workers(env_creator, policy_cls, config, num_workers=0)
MakeWorkers ==
    /\ pc = "make_workers"
    /\ made' = made \cup {"workers"}
    /\ pc' = IF trainer = "SVGInfLegacy" THEN "make_optimizer" ELSE "make_replay"
    /\ UNCHANGED <<num_workers, replay, n_added, last_sample, error>>
    /\ UNCHANGED <<trainer, config, rounds, n_rollouts, locals, result, num_steps_sampled,
                   num_steps_trained, off_policy_learning, events, spamlVars, policyVars, auxVars>>

\* legacy SVG(inf): self.optimizer = PolicyOptimizer(self.workers)
MakeOptimizer ==
    /\ pc = "make_optimizer"
    /\ made' = made \cup {"optimizer"}
    /\ pc' = "make_replay"
    /\ UNCHANGED <<num_workers, replay, n_added, last_sample, error>>
    /\ UNCHANGED <<trainer, config, rounds, n_rollouts, locals, result, num_steps_sampled,
                   num_steps_trained, off_policy_learning, events, spamlVars, policyVars, auxVars>>

\* self.replay = ReplayBuffer(config["buffer_size"]); NAF also zeroes its counters.
MakeReplay ==
    /\ pc = "make_replay"
    /\ replay' = ReplayBuffer(config.buffer_size)
    /\ made' = made \cup {"replay"}
    /\ num_steps_sampled' = 0
    /\ num_steps_trained' = 0
    /\ pc' = "idle"
    /\ UNCHANGED <<num_workers, n_added, last_sample, error>>
    /\ UNCHANGED <<trainer, config, rounds, n_rollouts, locals, result,
                   off_policy_learning, events, spamlVars, policyVars, auxVars>>

InitInit ==
    /\ trainer \in InitTrainers
    /\ config \in Configs(trainer)
    /\ num_workers \in NumWorkers
    /\ made = {}
    /\ replay = NoReplay
    /\ n_added = 0
    /\ last_sample = [k |-> 0, err |-> NoError, rows |-> <<>>, called |-> FALSE]
    /\ pc = "new"
    /\ error = NoError
    /\ rounds = 0
    /\ n_rollouts = 0
    /\ samples = NoBatch
    /\ batch = NoBatch
    /\ loop_n = 0
    /\ loop_i = 0
    /\ off_policy_stats = Unbound
    /\ on_policy_stats = Unbound
    /\ result = Unbound
    /\ num_steps_sampled = 0
    /\ num_steps_trained = 0
    /\ steps_sampled = 0
    /\ time_up = FALSE
    /\ off_policy_learning = FALSE
    /\ events = <<>>
    /\ NoSPAML
    /\ NoAux
    /\ pure_exploration = FALSE

NextInit == ValidateConfig \/ MakeWorkers \/ MakeOptimizer \/ MakeReplay

SpecInit == InitInit /\ [][NextInit]_vars

\* C12: a trainer that needs a single synchronous loop (NAFTrainer, legacy
\* SVGInfTrainer) given num_workers > 0 fails in _init with the validation error
\* before any worker set or replay buffer is created.
C12_DistributedWorkersRejected ==
    (num_workers > 0 /\ pc # "new") =>
        /\ pc = "raised"
        /\ error = AssertionError
        /\ made = {}
        /\ replay = NoReplay

\* What holds of the code: the legacy SVG(inf) trainer rejects every
\* num_workers other than 0 before creating anything; NAFTrainer rejects only a
\* negative num_workers.
C12_RejectedAsAsserted ==
    pc # "new" =>
        IF (trainer = "SVGInfLegacy" /\ num_workers # 0) \/ (trainer = "NAF" /\ num_workers < 0)
        THEN pc = "raised" /\ error = AssertionError /\ made = {} /\ replay = NoReplay
        ELSE pc # "raised"

(***************************************************************************)
(* Properties of the trainer loops, read off `events`.                     *)
(***************************************************************************)
IsSVGInf == trainer \in {"SVGInf", "SVGInfLegacy"}

IsLearn(e) == e.op = "learn_on_batch"
IsOffPolicyLearn(e) == IsLearn(e) /\ e.off
IsOnPolicyLearn(e) == IsLearn(e) /\ ~e.off

EventsWhere(P(_)) == {j \in 1..Len(events) : P(events[j])}

IsOp(e, op) == e.op = op
IsWorkerSample(e) == IsOp(e, "worker.sample")
IsReplayAdd(e) == IsOp(e, "replay.add")
IsReplaySample(e) == IsOp(e, "replay.sample")
IsLogMetrics(e) == IsOp(e, "log_metrics")

\* The phase of the iteration an event belongs to.
Phase(e) ==
    CASE IsWorkerSample(e) -> 1
      [] IsReplayAdd(e) -> 2
      [] IsReplaySample(e) -> 3
      [] IsOffPolicyLearn(e) -> 3
      [] IsOnPolicyLearn(e) -> 4
      [] IsLogMetrics(e) -> 5
      [] OTHER -> 0

AddedTags == [j \in 1..Cardinality(EventsWhere(IsReplayAdd)) |->
                 events[CHOOSE i \in EventsWhere(IsReplayAdd) :
                          Cardinality({h \in EventsWhere(IsReplayAdd) : h <= i}) = j].val]

C4_BatchRouting ==
    \A j \in 1..Len(events) :
      /\ (IsSVGInf /\ IsOnPolicyLearn(events[j])) =>
            /\ events[j].origin = "worker"
            /\ events[j].val = n_rollouts
            /\ events[j].val = samples.serial
      /\ (IsSVGInf /\ IsOffPolicyLearn(events[j])) => events[j].origin = "replay"
      /\ (~IsSVGInf /\ IsLearn(events[j])) => events[j].origin = "replay"

\* The second iteration's on-policy update, after off-policy updates.
C4_Witness ==
    /\ trainer = "SVGInf"
    /\ n_rollouts = 2
    /\ EventsWhere(IsOffPolicyLearn) # {}
    /\ \E j \in EventsWhere(IsOnPolicyLearn) : events[j].val = 2
    /\ batch.origin = "replay"

(***************************************************************************)
(* C5: the record SVGInfTrainer._train reports merges the off-policy       *)
(* record of the last off-policy update with the on-policy record: every   *)
(* key of either is present and on a collision the on-policy value wins.   *)
(***************************************************************************)
C5_ReportedStatsMerge ==
    (IsSVGInf /\ pc = "returned") =>
      /\ result.bound /\ off_policy_stats.bound /\ on_policy_stats.bound
      /\ DOMAIN result.val = DOMAIN off_policy_stats.val \cup DOMAIN on_policy_stats.val
      /\ \A k \in DOMAIN on_policy_stats.val : result.val[k] = on_policy_stats.val[k]
      /\ \A k \in DOMAIN off_policy_stats.val \ DOMAIN on_policy_stats.val :
            result.val[k] = off_policy_stats.val[k]
      \* the off-policy record is the one of the last pass of the loop
      /\ \A k \in DOMAIN off_policy_stats.val : off_policy_stats.val[k] = loop_n
      /\ loop_n = Cardinality(EventsWhere(IsOffPolicyLearn))

\* A report where both records hold "loss" with different values, and each holds
\* a key the other lacks... the off-policy one after three passes.
C5_Witness ==
    /\ trainer = "SVGInf"
    /\ pc = "returned"
    /\ loop_n = 3
    /\ DOMAIN off_policy_stats.val = {"loss", "grad_norm"}
    /\ DOMAIN on_policy_stats.val = {"loss"}
    /\ result.val["loss"] = 0
    /\ result.val["grad_norm"] = 3

(***************************************************************************)
(* C6: for one sampled batch the number of off-policy updates              *)
(* (replay.sample followed by learn_on_batch) is int(samples.count *       *)
(* updates_per_step) in the canonical SVG(inf) trainer and samples.count   *)
(* in NAF, SVG(1) and the legacy SVG(inf) trainer, each on a new minibatch *)
(* of train_batch_size rows.                                               *)
(***************************************************************************)
\* Off-policy updates made for the current batch.
UpdatesMade ==
    Cardinality({j \in EventsWhere(IsLearn) : j > 1 /\ IsReplaySample(events[j - 1])})

ExpectedUpdates ==
    IF trainer = "SVGInf"
    THEN (Count(samples) * config.updates_per_step.num) \div config.updates_per_step.den
    ELSE Count(samples)

\* The current batch has been dealt with: the off-policy loop is behind, or the
\* call failed in the trainer's own code (not by an exception of the replay
\* buffer or of the policy).
BatchSettled ==
    \/ pc \in {"on_policy", "report", "returned"}
    \/ pc = "loop_head" /\ rounds > 0
    \/ pc = "raised" /\ error \notin {ComputationError, EmptyBufferError}

EachUpdateDrawsMinibatch ==
    \A j \in 1..Len(events) :
      IsReplaySample(events[j]) =>
        /\ events[j].val = config.train_batch_size
        /\ (j < Len(events) \/ pc # "raised") =>
              /\ j < Len(events)
              /\ IsLearn(events[j + 1])
              /\ events[j + 1].origin = "replay"

C6_UpdateCount ==
    /\ BatchSettled => UpdatesMade = ExpectedUpdates
    /\ EachUpdateDrawsMinibatch

\* The same with the legacy SVG(inf) trainer left out.
C6_UpdateCountExceptLegacy ==
    trainer # "SVGInfLegacy" => C6_UpdateCount

\* C13: in NAFTrainer with pure_exploration_steps = P > 0 every worker.sample()
\* made while fewer than P timesteps have been sampled in total, the earlier
\* rounds of the same _train call included, runs with the pure-exploration
\* phase on, and every one made once P or more have been sampled runs with it off.
C13_PureExplorationGate ==
    (trainer = "NAF" /\ config.pure_exploration_steps > 0) =>
        \A j \in EventsWhere(IsWorkerSample) :
            events[j].explore = (events[j].total < config.pure_exploration_steps)

\* What holds of the code: the phase of a round is decided by num_steps_sampled
\* as it was when _train was entered (it is advanced only when _train returns).
C13_GateReadsCounterOfEntry ==
    (trainer = "NAF" /\ config.pure_exploration_steps > 0) =>
        \A j \in EventsWhere(IsWorkerSample) :
            events[j].explore = (num_steps_sampled - (IF pc = "returned" THEN steps_sampled ELSE 0)
                                   < config.pure_exploration_steps)

IsUpdateOldPolicy(e) == IsOp(e, "update_old_policy")
IsUpdateKLCoeff(e) == IsOp(e, "update_kl_coeff")

\* The adaptation of the round (every adaptation, when it is made) followed the
\* rule and left a positive coefficient.
AdaptationsFollowRule ==
    kl_last.n > 0 =>
        LET h == kl_last
            above == h.kl.num * 100 > h.kl.den
            below == h.kl.num * 200 < h.kl.den
        IN  /\ above => FLess(h.before, h.after)
            /\ below => FLess(h.after, h.before)
            /\ (~above /\ ~below) => FSame(h.after, h.before)
            /\ FLess(Fin(0, 1), h.after)
            /\ kl_coeff = h.after

\* In a round of SVG(1) the old policy is snapshotted before the off-policy
\* updates and the coefficient is adapted once, after them, on the round's batch.
AdaptedOncePerRound ==
    trainer = "SVGOne" =>
        /\ \A u \in EventsWhere(IsUpdateOldPolicy), l \in EventsWhere(IsLearn) : u < l
        /\ \A k \in EventsWhere(IsUpdateKLCoeff), l \in EventsWhere(IsLearn) : l < k
        /\ \A k \in EventsWhere(IsUpdateKLCoeff), u \in EventsWhere(IsUpdateOldPolicy) : u < k
        /\ Cardinality(EventsWhere(IsUpdateKLCoeff)) <= 1
        /\ Cardinality(EventsWhere(IsUpdateOldPolicy)) <= 1
        /\ \A k \in EventsWhere(IsUpdateKLCoeff) :
              /\ Cardinality(EventsWhere(IsUpdateOldPolicy)) = 1
              /\ events[k].origin = "worker"
              /\ \E w \in EventsWhere(IsWorkerSample) : events[k].val = events[w].val
              /\ events[k].val = n_rollouts
        /\ (pc = "loop_head" /\ rounds > 0) => Cardinality(EventsWhere(IsUpdateKLCoeff)) = 1

C17_ReportsWithoutOffPolicyUpdate ==
    (trainer \in {"SVGInf", "NAF", "SVGOne"} /\ pc = "raised") =>
        error # UnboundLocalError

\* What the trainers do: the failure comes exactly from a call in which no
\* off-policy update has bound the statistics.
C17_UnboundOnlyWithoutUpdate ==
    (trainer \in {"SVGInf", "NAF", "SVGOne"} /\ pc = "raised"
        /\ error = UnboundLocalError) => ~off_policy_stats.bound

\* C18: from an empty replay buffer on, the off-policy loops call replay.sample
\* only while the buffer holds a transition (the rows of the batch are added
\* first and an empty batch gives no update), so no _train call ends with
\* EmptyBufferError.
C18_SampleOnlyFromNonEmptyBuffer ==
    /\ (pc = "off_policy" /\ loop_i < loop_n) => Len(replay.storage) >= 1
    /\ EventsWhere(IsReplaySample) # {} => Len(replay.storage) >= 1
    /\ error # EmptyBufferError

\* NAF, second round of a call: the first round sampled an empty batch into the
\* empty buffer and made no update, this one added its rows and drew from them.
C18_Witness ==
    /\ trainer = "NAF"
    /\ rounds = 2
    /\ n_rollouts = 2
    /\ Count(samples) >= 1
    /\ n_added = Count(samples)
    /\ EventsWhere(IsReplaySample) # {}

OneStepEnds ==
    /\ outcome = NoOutcome
    /\ outcome'.method = "one_step_action_value_surrogate"

\* C20: when one_step_action_value_surrogate ends, by returning or because the
\* next-action rsample raised, the policy's requires_grad setting is what it was
\* before the call.
C20_RequiresGradRestored ==
    [][OneStepEnds => policy_requires_grad' = policy_requires_grad]_vars

\* What the method does: a call that gets past the rsample leaves the policy's
\* gradients enabled whatever they were, one whose rsample raises leaves them
\* disabled.
C20_RequiresGradAsAssigned ==
    [][OneStepEnds =>
         policy_requires_grad' =
             IF outcome'.status = "ok" THEN TRUE
             ELSE IF outcome'.error = ComputationError THEN FALSE
             ELSE policy_requires_grad]_vars

\* NAF: both halves of the break test of _train hold.
BreakConditions ==
    time_up /\ steps_sampled >= config.timesteps_per_iteration

\* NAF: a sample-and-update round of the running call has just ended (its for
\* loop is exhausted and the break test has been made).
RoundEnded ==
    /\ pc \in {"loop_head", "returned", "raised"}
    /\ rounds >= 1
    /\ loop_i = loop_n

\* C21 (rounds and return): a NAFTrainer._train call makes at least one round,
\* goes on to another round after a round at whose end the two conditions do
\* not both hold, and returns after the first round at whose end they do.
C21_ReturnsAfterFirstSufficientRound ==
    trainer = "NAF" =>
        /\ pc = "returned" => RoundEnded /\ BreakConditions
        /\ (RoundEnded /\ BreakConditions) => pc = "returned"
        /\ (RoundEnded /\ ~BreakConditions) => pc = "loop_head"

\* What the trainer does: the same, except that after the first sufficient
\* round the call raises UnboundLocalError at `return fetches` when no update
\* has run in it.
C21_LeavesLoopAfterFirstSufficientRound ==
    trainer = "NAF" =>
        /\ pc = "returned" => RoundEnded /\ BreakConditions
        /\ (RoundEnded /\ BreakConditions) =>
              \/ pc = "returned"
              \/ pc = "raised" /\ error = UnboundLocalError /\ ~off_policy_stats.bound
        /\ (RoundEnded /\ ~BreakConditions) => pc = "loop_head"
        /\ (pc = "raised" /\ error = UnboundLocalError) => RoundEnded /\ BreakConditions

\* What the trainer does: steps_sampled starts a call at 0 and grows by the
\* count of each sampled batch, and num_steps_sampled changes only when the
\* loop is left, by steps_sampled.
C21_StepsCounted ==
    [][trainer = "NAF" =>
         /\ (pc \in {"idle", "returned", "raised"} /\ pc' = "loop_head") =>
               steps_sampled' = 0
         /\ (pc = "sample" /\ pc' # "sample") =>
               steps_sampled' = steps_sampled + Count(samples')
         /\ (pc \notin {"sample", "idle", "returned", "raised"}) =>
               steps_sampled' = steps_sampled
         /\ (pc = "off_policy" /\ pc' \in {"returned", "raised"} /\ loop_i = loop_n) =>
               num_steps_sampled' = num_steps_sampled + steps_sampled
         /\ ~(pc = "off_policy" /\ pc' \in {"returned", "raised"} /\ loop_i = loop_n) =>
               num_steps_sampled' = num_steps_sampled]_vars

\* The statements of a running _train call are executed one after the other;
\* nothing obliges the caller to make another call.
InCallStep ==
    \/ UpdateExplorationPhase
    \/ IterationDone
    \/ WorkerSample
    \/ AddRows
    \/ BeginUpdates
    \/ OffPolicyUpdate
    \/ EndOffPolicy
    \/ NAFBreakTest
    \/ UpdateKLCoeff
    \/ OnPolicyUpdate
    \/ Report

SpecTrainFair == SpecTrain /\ WF_vars(InCallStep)

Running == pc \notin {"idle", "returned", "raised"}

\* Every batch a worker.sample() has returned holds a transition.
NonEmptySamples == samples.origin = "worker" => Count(samples) >= 1

\* A NAF call is entered with enough of the run's worker.sample() calls left
\* for rounds that reach timesteps_per_iteration one transition at a time.
NAFCallEntered ==
    /\ trainer = "NAF"
    /\ pc = "loop_head"
    /\ rounds = 0
    /\ n_rollouts + Max(config.timesteps_per_iteration, 1) <= MaxRollouts

\* What the trainer does: when every worker.sample() returns a transition and
\* the clock advances (min_iter_time_s has elapsed at some break test of a call
\* that goes on), a NAF call ends.
C21_TerminatesUnderHypotheses ==
    ([]NonEmptySamples /\ [](Running => <>(time_up \/ ~Running)))
        => (NAFCallEntered ~> ~Running)

(***************************************************************************)
(* SpecReplay: a buffer of any capacity 1..MaxCapacity, add and sample     *)
(* called in any order.                                                    *)
(***************************************************************************)
NoSample == [k |-> 0, err |-> NoError, rows |-> <<>>, called |-> FALSE]

\* No trainer takes part in SpecReplay.
NoTrainer ==
    /\ trainer = "none"
    /\ config = [buffer_size |-> 0]
    /\ pc = "idle"
    /\ error = NoError
    /\ rounds = 0
    /\ n_rollouts = 0
    /\ samples = NoBatch
    /\ batch = NoBatch
    /\ loop_n = 0
    /\ loop_i = 0
    /\ off_policy_stats = Unbound
    /\ on_policy_stats = Unbound
    /\ result = Unbound
    /\ num_steps_sampled = 0
    /\ num_steps_trained = 0
    /\ steps_sampled = 0
    /\ time_up = FALSE
    /\ off_policy_learning = FALSE
    /\ events = <<>>
    /\ num_workers = 0
    /\ made = {}
    /\ pure_exploration = FALSE

InitReplay ==
    /\ \E c \in 1..MaxCapacity : replay = ReplayBuffer(c)
    /\ n_added = 0
    /\ last_sample = NoSample
    /\ NoTrainer
    /\ NoSPAML
    /\ NoAux

\* replay.add(transition): the transition is tagged with its insertion number.
Add ==
    /\ n_added < MaxAdds
    /\ replay' = ReplayAdd(replay, n_added)
    /\ n_added' = n_added + 1
    /\ UNCHANGED <<last_sample, trainVars, spamlVars, initVars, policyVars, auxVars>>

\* replay.sample(k)
Sample ==
    /\ \E k \in 0..MaxSampleSize :
         \E out \in ReplaySample(replay, k) :
            last_sample' = [k |-> k, err |-> out.err, rows |-> out.rows, called |-> TRUE]
    /\ UNCHANGED <<replay, n_added, trainVars, spamlVars, initVars, policyVars, auxVars>>

NextReplay == Add \/ Sample

SpecReplay == InitReplay /\ [][NextReplay]_vars

(***************************************************************************)
(* SpecSPAML: one SPAML object, set up, configured and called in any order.*)
(***************************************************************************)
InitSPAML ==
    /\ InitSPAMLObject
    /\ NoAux
    /\ replay = ReplayBuffer(1)
    /\ n_added = 0
    /\ last_sample = NoSample
    /\ NoTrainer

NextSPAML ==
    \/ SetRewardFn
    \/ SetTerminationFn
    \/ SetGradEstimator
    \/ Compile
    \/ Call
    \/ OneStepActionValueSurrogate
    \/ Return

SpecSPAML == InitSPAML /\ [][NextSPAML]_vars

\* The cells of a finished one_step_action_value_surrogate call.
SurrogateCells ==
    IF outcome.method = "one_step_action_value_surrogate" /\ outcome.status = "ok"
    THEN Range(outcome.cells)
    ELSE {}

\* C7: for every model's element whose termination flag is true the bootstrapped
\* value is the reward exactly and the next value is reward - alpha * logp,
\* whatever next_qval is (finite, infinite or NaN); for an element that is not
\* terminal the bootstrapped value is reward + gamma * next_qval.
C7_TerminationGating ==
    \A c \in SurrogateCells :
        LET d == c.draw
        IN  IF d.done
            THEN /\ FSame(c.bootstrapped.val, d.reward)
                 /\ FSame(c.next_vval.val, FSub(d.reward, FMul(Fin(5, 100), d.logp)))
            ELSE /\ FSame(c.bootstrapped.val,
                          FAdd(d.reward, FMul(Fin(99, 100), d.next_qval)))
                 /\ FSame(c.next_vval.val,
                          FSub(FAdd(d.reward, FMul(Fin(99, 100), d.next_qval)),
                               FMul(Fin(5, 100), d.logp)))

\* A terminal element with an infinite next_qval next to one that is not terminal.
C7_Witness ==
    /\ \E c \in SurrogateCells : c.draw.done /\ c.draw.next_qval = PosInf
    /\ \E c \in SurrogateCells : ~c.draw.done /\ c.draw.next_qval = Fin(3, 1)

\* C8: a __call__ made while the reward or the termination function is missing
\* raises the error of the `assert self.initialized` statement (an
\* AssertionError) with no module called (no policy sample, no model, no critic)
\* and no loss returned; with both functions supplied the call does not raise
\* that error and goes on to sample the policy, and when nothing else raises it
\* returns the losses.
C8_UninitializedCallFails ==
    outcome.method = "__call__" =>
        IF env.reward /\ env.termination
        THEN /\ outcome.error # AssertionError
             /\ outcome.calls # <<>>
             /\ Head(outcome.calls) = ModuleCall("policy", -1, "sample")
             /\ outcome.status = "ok" => Len(outcome.loss) = ensemble_size
        ELSE /\ outcome.status = "raised"
             /\ outcome.error = AssertionError
             /\ outcome.calls = <<>>
             /\ outcome.loss = <<>>
             /\ outcome.info = NoInfo

\* A call failed on a loss that has only one of the two functions.
C8_Witness ==
    /\ outcome.method = "__call__"
    /\ outcome.error = AssertionError
    /\ env.reward /\ ~env.termination

\* C9: __call__ returns exactly N losses, the i-th being
\* action_gradient_loss[i] + lambda_ * maximum_likelihood_loss[i] with
\* lambda_ = 0.05, and an info record whose keys are exactly 'loss(models[i])'
\* for i in 0..N-1, holding the i-th loss, plus 'loss(daml)' and 'loss(mle)',
\* holding the means over the models of the two terms.
C9_PerModelLossAndInfo ==
    (outcome.method = "__call__" /\ outcome.status = "ok") =>
        LET N == ensemble_size
            modelKeys == {"loss(models[" \o ToString(i) \o "])" : i \in 0..(N - 1)}
        IN  /\ Len(outcome.loss) = N
            /\ Len(outcome.grad_loss) = N /\ Len(outcome.mle_loss) = N
            /\ \A i \in 1..N :
                   FSame(outcome.loss[i],
                         FAdd(outcome.grad_loss[i], FMul(Fin(5, 100), outcome.mle_loss[i])))
            /\ DOMAIN outcome.info = modelKeys \cup {"loss(daml)", "loss(mle)"}
            /\ Cardinality(modelKeys) = N
            /\ \A i \in 0..(N - 1) :
                   outcome.info["loss(models[" \o ToString(i) \o "])"] = outcome.loss[i + 1]
            /\ FSame(outcome.info["loss(daml)"],
                     FMul(FSum(outcome.grad_loss), Fin(1, N)))
            /\ FSame(outcome.info["loss(mle)"],
                     FMul(FSum(outcome.mle_loss), Fin(1, N)))

\* Two models whose losses and whose two terms all differ.
C9_Witness ==
    /\ outcome.method = "__call__" /\ outcome.status = "ok"
    /\ ensemble_size = 2
    /\ ~FSame(outcome.loss[1], outcome.loss[2])
    /\ outcome.grad_loss[1] # outcome.grad_loss[2]
    /\ outcome.mle_loss[1] # outcome.mle_loss[2]

\* The models' methods called by the pending method call.
ModelMethodsCalled == {c.method : c \in {x \in Range(outcome.calls) : x.module = "models"}}

\* Within one method call the estimator fixes both choices.
EstimatorConsistent ==
    /\ (outcome.status # "none" /\ grad_estimator = "SF")
          => ModelMethodsCalled \subseteq {"sample"}
    /\ (outcome.status # "none" /\ grad_estimator = "PD")
          => ModelMethodsCalled \subseteq {"rsample"}
    /\ (outcome.status = "ok") =>
          /\ grad_estimator \in {"SF", "PD"}
          /\ Cardinality({c \in Range(outcome.calls) : c.module = "models"}) = ensemble_size
    /\ \A c \in SurrogateCells :
          LET log_prob == c.draw.log_prob
          IN  /\ grad_estimator = "SF" =>
                    /\ FSame(c.surrogate.val, FMul(log_prob, c.next_vval.val))
                    /\ c.surrogate.grad = {"action", "models"}
              /\ grad_estimator = "PD" =>
                    /\ c.surrogate = c.next_vval
                    /\ {"action", "models"} \subseteq c.surrogate.grad

\* C10: the estimator is 'SF' after construction, no SPAML method changes it
\* (the only step that does is the owner's assignment of the attribute), and
\* within one call it selects both choices: with 'SF' every model is queried
\* with sample and the surrogate is log_prob * detached(next value); with 'PD'
\* every model is queried with rsample and the surrogate is the next value.
C10_EstimatorConsistency ==
    /\ grad_estimator = "SF"
    /\ []EstimatorConsistent
    /\ [][grad_estimator' # grad_estimator => SetGradEstimator]_vars

\* A 'PD' surrogate over two models, one element of them terminal.
C10_Witness ==
    /\ grad_estimator = "PD"
    /\ ensemble_size = 2
    /\ \E c \in SurrogateCells : c.draw.done
    /\ ModelMethodsCalled = {"rsample"}

\* C11: under 'SF' a backward pass from the surrogate visits neither the
\* policy's draw of next_act, nor its log-probability logp, nor the policy's
\* parameters (nor the next value or the critics): it goes through the models'
\* log_prob only and ends in the current action and the model parameters.
C11_NoGradientIntoNextAction ==
    \A c \in SurrogateCells :
        grad_estimator = "SF" =>
            /\ c.paths \cap {"next_act", "logp", "policy"} = {}
            /\ c.paths = {"surrogate", "log_prob", "action", "models"}
            /\ c.paths \cap GraphLeaves = {"action", "models"}
            /\ c.surrogate.grad = c.paths \cap GraphLeaves

\* An 'SF' surrogate of an element that is not terminal, so that the next value
\* (detached) depends on the critics' value at the next action.
C11_Witness ==
    /\ grad_estimator = "SF"
    /\ \E c \in SurrogateCells :
          /\ ~c.draw.done
          /\ "critics" \in c.next_vval.grad
          /\ "critics" \notin c.surrogate.grad

(***************************************************************************)
(* SpecLineSearch: policy updates, one after the other, under any options. *)
(***************************************************************************)
InitLineSearch ==
    /\ line_search_config \in LineSearchConfigs
    /\ theta = Fin(0, 1)
    /\ theta_old = Fin(0, 1)
    /\ ls_step = Fin(0, 1)
    /\ ls_tried = <<>>
    /\ ls_pc = "idle"
    /\ ls_stats = NoStats
    /\ ls_updates = 0
    /\ replay = ReplayBuffer(1)
    /\ n_added = 0
    /\ last_sample = NoSample
    /\ NoTrainer
    /\ NoSPAML
    /\ NoKL

NextLineSearch == BeginPolicyUpdate \/ TryCandidate \/ RejectUpdate

SpecLineSearch == InitLineSearch /\ [][NextLineSearch]_vars

\* The last policy update ran the line search and every candidate it tried had
\* an improvement ratio below accept_ratio.
EveryRatioBelow ==
    /\ line_search_config.line_search
    /\ ls_pc = "idle" /\ ls_updates > 0
    /\ \A j \in 1..Len(ls_tried) :
          ls_tried[j].ratio.num * 10 < ls_tried[j].ratio.den

\* C14: with line search enabled, if the improvement ratio of every one of the
\* (at most max_backtracks) candidate steps is below accept_ratio = 0.1, the
\* parameters after the update equal the parameters before it, the statistics
\* report a line-search failure, and the trainer goes on (the update has ended
\* without an error and the next one can begin).
C14_RejectedLineSearchIsNoOp ==
    EveryRatioBelow =>
        /\ FSame(theta, theta_old)
        /\ ls_stats.line_search_failure
        /\ ~ls_stats.updated
        /\ Len(ls_tried) = line_search_config.max_backtracks
        /\ error = NoError
        /\ ls_pc = "idle"

\* Three candidates, each shrunk by backtrack_ratio, were tried and rejected.
C14_Witness ==
    /\ EveryRatioBelow
    /\ Len(ls_tried) = 3
    /\ FSame(ls_step, Fin(512, 1000)) \/ FSame(ls_step, Fin(-1024, 1000))
    /\ ls_updates = 2

(***************************************************************************)
(* C1: for every capacity C >= 1 and every sequence of adds the buffer     *)
(* never holds more than C transitions, and it holds exactly the           *)
(* min(N, C) most recently added ones (tags N-C .. N-1 once N > C).        *)
(***************************************************************************)
C1_RetainsMostRecent ==
    /\ Len(replay.storage) <= replay.maxsize
    /\ Len(replay.storage) = Min(n_added, replay.maxsize)
    /\ Range(replay.storage) = (Max(0, n_added - replay.maxsize))..(n_added - 1)

\* The scenario of the specification: capacity 4, six adds, {2,3,4,5} retained.
C1_Witness ==
    /\ replay.maxsize = 4
    /\ n_added = 6
    /\ Range(replay.storage) = {2, 3, 4, 5}

(***************************************************************************)
(* C2: sample(k) on a buffer holding at least one transition returns       *)
(* exactly k rows, each one currently stored; on an empty buffer it fails  *)
(* with EmptyBufferError and returns nothing.                              *)
(***************************************************************************)
C2_SampleSizeOrEmptyError ==
    [][last_sample' # last_sample =>
        IF Len(replay.storage) >= 1
        THEN /\ last_sample'.err = NoError
             /\ Len(last_sample'.rows) = last_sample'.k
             /\ Range(last_sample'.rows) \subseteq Range(replay.storage)
        ELSE /\ last_sample'.err = EmptyBufferError
             /\ last_sample'.rows = <<>>]_vars

\* A sample larger than the number of stored transitions succeeded.
C2_Witness ==
    /\ last_sample.called
    /\ last_sample.err = NoError
    /\ last_sample.k = 2
    /\ Len(last_sample.rows) = 2
    /\ Len(replay.storage) = 1

====
